---- MODULE Spec2Model ----
(***************************************************************************)
(* Model of the two generator scripts of deltawye:                         *)
(*   scripts/generate-cylinder.py  and  scripts/generate-wheel.py          *)
(* Each script is one run of main(): check the argument count, parse the   *)
(* arguments with int(), validate them, build the graph, print it row by   *)
(* row, exit.  A behaviour of the model is one invocation of one script.   *)
(***************************************************************************)
EXTENDS Integers, Sequences, FiniteSets, TLC

VARIABLES prog, argv, pc, n, m, graph, stdout, stderr, status

vars == <<prog, argv, pc, n, m, graph, stdout, stderr, status>>

(***************************************************************************)
(* Bounds of the input space.                                              *)
(***************************************************************************)
\* largest integer written as a plain decimal command-line argument
MaxArg == 5
\* largest number of command-line arguments after the script name
MaxArgs == 3

(***************************************************************************)
(* Generic Python helpers.                                                 *)
(***************************************************************************)
\* range(a, b) as a list
range(a, b) == [k \in 1..(b - a) |-> a + k - 1]

\* concatenation of a list of lists (what a nested comprehension yields)
RECURSIVE Flatten(_)
Flatten(ss) == IF ss = <<>> THEN <<>> ELSE Head(ss) \o Flatten(Tail(ss))

DigitChars == <<"0", "1", "2", "3", "4", "5", "6", "7", "8", "9">>

IsDigit(c) == \E d \in 1..10 : DigitChars[d] = c

DigitVal(c) == (CHOOSE d \in 1..10 : DigitChars[d] = c) - 1

IsSpace(c) == c \in {" ", "\t"}

\* str.strip() as int() applies it to its argument
RECURSIVE Strip(_)
Strip(s) ==
    IF s = <<>> THEN s
    ELSE IF IsSpace(Head(s)) THEN Strip(Tail(s))
    ELSE IF IsSpace(s[Len(s)]) THEN Strip(SubSeq(s, 1, Len(s) - 1))
    ELSE s

\* the part of an int() literal after the sign
Unsigned(s) ==
    LET t == Strip(s)
    IN  IF t # <<>> /\ Head(t) \in {"+", "-"} THEN Tail(t) ELSE t

\* digits, optionally grouped by single underscores
WellFormed(b) ==
    /\ b # <<>>
    /\ \A k \in 1..Len(b) : IsDigit(b[k]) \/ b[k] = "_"
    /\ IsDigit(b[1])
    /\ IsDigit(b[Len(b)])
    /\ \A k \in 1..(Len(b) - 1) : ~(b[k] = "_" /\ b[k + 1] = "_")

RECURSIVE Magnitude(_, _)
Magnitude(b, acc) ==
    IF b = <<>> THEN acc
    ELSE IF Head(b) = "_" THEN Magnitude(Tail(b), acc)
    ELSE Magnitude(Tail(b), 10 * acc + DigitVal(Head(b)))

\* int(s) raises ValueError
ValueError(s) == ~WellFormed(Unsigned(s))

\* int(s) when it does not raise
int(s) ==
    LET t == Strip(s)
        v == Magnitude(Unsigned(s), 0)
    IN  IF Head(t) = "-" THEN 0 - v ELSE v

\* str(i) for an integer i
RECURSIVE str(_)
str(i) ==
    IF i < 0 THEN "-" \o str(0 - i)
    ELSE IF i < 10 THEN DigitChars[i + 1]
    ELSE str(i \div 10) \o DigitChars[(i % 10) + 1]

\* " ".join(map(str, l))
RECURSIVE join(_)
join(l) ==
    IF l = <<>> THEN ""
    ELSE IF Len(l) = 1 THEN str(l[1])
    ELSE str(l[1]) \o " " \o join(Tail(l))

(***************************************************************************)
(* generate-cylinder.py : createPlaneCylindricalGraph                      *)
(***************************************************************************)
right(N, M, x, y) == <<(x + 1) % N, y>>

left(N, M, x, y) == <<(x - 1) % N, y>>

up(N, M, x, y) == <<x, (y - 1) % M>>

down(N, M, x, y) == <<x, (y + 1) % M>>

\* first() that forgets the left neighbor
first_noLeft(N, M, x, y) ==
    << <<x, y>>, right(N, M, x, y), down(N, M, x, y) >>

first(N, M, x, y) ==
    << <<x, y>>, right(N, M, x, y), down(N, M, x, y), left(N, M, x, y) >>

middle(N, M, x, y) ==
    << <<x, y>>, right(N, M, x, y), down(N, M, x, y), left(N, M, x, y),
       up(N, M, x, y) >>

\* last() that takes down() where the code takes up()
last_down(N, M, x, y) ==
    << <<x, y>>, right(N, M, x, y), left(N, M, x, y), down(N, M, x, y) >>

last(N, M, x, y) ==
    << <<x, y>>, right(N, M, x, y), left(N, M, x, y), up(N, M, x, y) >>

firstRow(N, M) ==
    LET is == range(0, N)
    IN  [a \in 1..Len(is) |-> first(N, M, is[a], 0)]

\* middleRows with the two loops of the comprehension exchanged
middleRows_rowMajor(N, M) ==
    LET is == range(0, N)
        js == range(1, M - 1)
    IN  Flatten([b \in 1..Len(js) |->
                    [a \in 1..Len(is) |-> middle(N, M, is[a], js[b])]])

middleRows(N, M) ==
    LET is == range(0, N)
        js == range(1, M - 1)
    IN  Flatten([a \in 1..Len(is) |->
                    [b \in 1..Len(js) |-> middle(N, M, is[a], js[b])]])

lastRow(N, M) ==
    LET is == range(0, N)
    IN  [a \in 1..Len(is) |-> last(N, M, is[a], M - 1)]

\* rows with the last grid row ahead of the middle rows
rows_lastSecond(N, M) == firstRow(N, M) \o lastRow(N, M) \o middleRows(N, M)

rows(N, M) == firstRow(N, M) \o middleRows(N, M) \o lastRow(N, M)

vertices(N, M) ==
    LET js == range(0, M)
        is == range(0, N)
    IN  Flatten([b \in 1..Len(js) |->
                    [a \in 1..Len(is) |-> <<is[a], js[b]>>]])

\* relabel that numbers the vertices from 0
relabel_fromZero(N, M, v) ==
    LET vs == vertices(N, M)
        ids == range(0, Len(vs))
    IN  ids[CHOOSE k \in 1..Len(vs) : vs[k] = v]

\* relabel = dict(zip(vertices, range(1, 1+len(vertices)))); relabel[v]
relabel(N, M, v) ==
    LET vs == vertices(N, M)
        ids == range(1, 1 + Len(vs))
    IN  ids[CHOOSE k \in 1..Len(vs) : vs[k] = v]

createPlaneCylindricalGraph(N, M) ==
    LET rs == rows(N, M)
    IN  [r \in 1..Len(rs) |->
            [k \in 1..Len(rs[r]) |-> relabel(N, M, rs[r][k])]]

(***************************************************************************)
(* generate-wheel.py : createPlaneWheelGraph                               *)
(***************************************************************************)
\* center that starts the cycle vertices at 1
center_fromOne(c) == <<c>> \o range(1, c)

\* center = [m] + list(range(m)), m the number of vertices in the cycle
center(c) == <<c>> \o range(0, c)

\* a cycle row with successor and predecessor exchanged
cycleRow_swapped(c, x) == <<x, c, (x + 1) % c, (x - 1) % c>>

\* one element of the comprehension that builds cycle
cycleRow(c, x) == <<x, c, (x - 1) % c, (x + 1) % c>>

cycle(c) ==
    LET xs == range(0, c)
    IN  [a \in 1..Len(xs) |-> cycleRow(c, xs[a])]

createPlaneWheelGraph(N) ==
    LET c == N - 1
    IN  cycle(c) \o << center(c) >>

(***************************************************************************)
(* Command lines.                                                          *)
(***************************************************************************)
RECURSIVE Decimal(_)
Decimal(i) ==
    IF i < 10 THEN << DigitChars[i + 1] >>
    ELSE Decimal(i \div 10) \o << DigitChars[(i % 10) + 1] >>

\* arguments that denote an integer, each with the integer it denotes
IntArgs ==
    { <<Decimal(i), i>> : i \in 0..MaxArg }
      \cup { << <<"-", "1">>, 0 - 1 >>,
             << <<"+", "3">>, 3 >>,
             << <<" ", "4", " ">>, 4 >>,
             << <<"0", "_", "3">>, 3 >> }

\* arguments that denote no integer
NonIntArgs ==
    { <<>>, <<"x">>, <<"3", ".", "5">>, <<"_", "3">>, <<"-">>, <<"2", "x">> }

Args == { p[1] : p \in IntArgs } \cup NonIntArgs

ArgLists == UNION { [1..k -> Args] : k \in 0..MaxArgs }

Progs == {"generate-cylinder.py", "generate-wheel.py"}

(***************************************************************************)
(* main()                                                                  *)
(***************************************************************************)
\* number of entries of sys.argv each script insists on
ExpectedArgc(p) == IF p = "generate-cylinder.py" THEN 3 ELSE 2

\* an argument-count check that only rejects too few arguments
WrongArgc_tooFew(p, av) == Len(av) < ExpectedArgc(p)

WrongArgc(p, av) == Len(av) # ExpectedArgc(p)

\* the usage line of each script
Usage(p, av) ==
    IF p = "generate-cylinder.py"
    THEN "usage: " \o av[1] \o " n m"
    ELSE "usage: " \o av[1] \o " n"

\* the guards that reject a parsed n or m
\* a cylinder guard on n that is off by one
CylinderNTooSmall_offByOne(N) == N < 2

CylinderNTooSmall(N) == N < 3

CylinderMTooSmall(M) == M < 2

WheelNTooSmall(N) == N < 4

\* sys.exit(arg): a string goes to stderr with status 1, no argument is 0
ExitStatus(msg) == IF msg = "" THEN 0 ELSE 1

Exit(msg) ==
    /\ pc' = "done"
    /\ stderr' = msg
    /\ status' = ExitStatus(msg)

Init ==
    /\ prog \in Progs
    /\ \E args \in ArgLists : argv = <<prog>> \o args
    /\ pc = "argc"
    /\ n = 0
    /\ m = 0
    /\ graph = <<>>
    /\ stdout = <<>>
    /\ stderr = ""
    /\ status = 0 - 1

\* if len(sys.argv) != k: sys.exit(usage)
CheckArgc ==
    /\ pc = "argc"
    /\ IF WrongArgc(prog, argv)
       THEN Exit(Usage(prog, argv))
       ELSE pc' = "parse" /\ UNCHANGED <<stderr, status>>
    /\ UNCHANGED <<prog, argv, n, m, graph, stdout>>

\* try: n = int(sys.argv[1]); m = int(sys.argv[2]) except ValueError: ...
ParseCylinder ==
    /\ pc = "parse"
    /\ prog = "generate-cylinder.py"
    /\ IF ValueError(argv[2])
       THEN Exit("error: n and m must be integers") /\ UNCHANGED <<n, m>>
       ELSE IF ValueError(argv[3])
       THEN /\ Exit("error: n and m must be integers")
            /\ n' = int(argv[2])
            /\ UNCHANGED m
       ELSE /\ n' = int(argv[2])
            /\ m' = int(argv[3])
            /\ pc' = "checkN"
            /\ UNCHANGED <<stderr, status>>
    /\ UNCHANGED <<prog, argv, graph, stdout>>

\* try: n = int(sys.argv[1]) except ValueError: ...
ParseWheel ==
    /\ pc = "parse"
    /\ prog = "generate-wheel.py"
    /\ IF ValueError(argv[2])
       THEN Exit("error: n must be an integer") /\ UNCHANGED n
       ELSE /\ n' = int(argv[2])
            /\ pc' = "checkN"
            /\ UNCHANGED <<stderr, status>>
    /\ UNCHANGED <<prog, argv, m, graph, stdout>>

\* if n < 3: sys.exit(...)
CheckNCylinder ==
    /\ pc = "checkN"
    /\ prog = "generate-cylinder.py"
    /\ IF CylinderNTooSmall(n)
       THEN Exit("error: n must not be smaller than 3 (to avoid loops)")
       ELSE pc' = "checkM" /\ UNCHANGED <<stderr, status>>
    /\ UNCHANGED <<prog, argv, n, m, graph, stdout>>

\* if m < 2: sys.exit(...)
CheckMCylinder ==
    /\ pc = "checkM"
    /\ prog = "generate-cylinder.py"
    /\ IF CylinderMTooSmall(m)
       THEN Exit("error: m must not be smaller than 2")
       ELSE pc' = "build" /\ UNCHANGED <<stderr, status>>
    /\ UNCHANGED <<prog, argv, n, m, graph, stdout>>

\* if n < 4: sys.exit(...)
CheckNWheel ==
    /\ pc = "checkN"
    /\ prog = "generate-wheel.py"
    /\ IF WheelNTooSmall(n)
       THEN Exit("error: n must not be smaller than 4")
       ELSE pc' = "build" /\ UNCHANGED <<stderr, status>>
    /\ UNCHANGED <<prog, argv, n, m, graph, stdout>>

\* graph = createPlaneCylindricalGraph(n, m)
BuildCylinder ==
    /\ pc = "build"
    /\ prog = "generate-cylinder.py"
    /\ graph' = createPlaneCylindricalGraph(n, m)
    /\ pc' = "print"
    /\ UNCHANGED <<prog, argv, n, m, stdout, stderr, status>>

\* graph = createPlaneWheelGraph(n)
BuildWheel ==
    /\ pc = "build"
    /\ prog = "generate-wheel.py"
    /\ graph' = createPlaneWheelGraph(n)
    /\ pc' = "print"
    /\ UNCHANGED <<prog, argv, n, m, stdout, stderr, status>>

\* for l in graph: print(" ".join(map(str, l)))
PrintLine ==
    /\ pc = "print"
    /\ Len(stdout) < Len(graph)
    /\ stdout' = Append(stdout, join(graph[Len(stdout) + 1]))
    /\ UNCHANGED <<prog, argv, pc, n, m, graph, stderr, status>>

\* sys.exit() after the loop
ExitOk ==
    /\ pc = "print"
    /\ Len(stdout) = Len(graph)
    /\ Exit("")
    /\ UNCHANGED <<prog, argv, n, m, graph, stdout>>

Next ==
    \/ CheckArgc
    \/ ParseCylinder
    \/ ParseWheel
    \/ CheckNCylinder
    \/ CheckMCylinder
    \/ CheckNWheel
    \/ BuildCylinder
    \/ BuildWheel
    \/ PrintLine
    \/ ExitOk

Spec == Init /\ [][Next]_vars

TypeOK ==
    /\ prog \in Progs
    /\ pc \in {"argc", "parse", "checkN", "checkM", "build", "print", "done"}
    /\ n \in Int
    /\ m \in Int
    /\ status \in {0 - 1, 0, 1}

(***************************************************************************)
(* Vocabulary of the properties.                                           *)
(***************************************************************************)
IsCylinder == prog = "generate-cylinder.py"

IsWheel == prog = "generate-wheel.py"

\* the graph has been built by the run (it is being printed, or was printed)
Built == pc = "print" \/ (pc = "done" /\ status = 0)

Succeeded == pc = "done" /\ status = 0

\* what the command line says, read off the input space and not off int()
Denotes(a) == \E p \in IntArgs : p[1] = a

Meaning(a) == (CHOOSE p \in IntArgs : p[1] = a)[2]

\* the invocation violates a documented validation rule
InvalidCylinder ==
    \/ Len(argv) # 3
    \/ ~Denotes(argv[2])
    \/ ~Denotes(argv[3])
    \/ Meaning(argv[2]) < 3
    \/ Meaning(argv[3]) < 2

InvalidWheel ==
    \/ Len(argv) # 2
    \/ ~Denotes(argv[2])
    \/ Meaning(argv[2]) < 4

Invalid == (IsCylinder /\ InvalidCylinder) \/ (IsWheel /\ InvalidWheel)

\* the run is past validation with parameters in the documented domain
CylinderBuilt == IsCylinder /\ Built /\ n >= 3 /\ m >= 2

WheelBuilt == IsWheel /\ Built /\ n >= 4

\* row-major numbering of the grid
id(x, y) == y * n + x + 1

\* the rows of g whose first element is v
RowsOf(g, v) == { r \in 1..Len(g) : g[r][1] = v }

\* the self IDs of the rows of g, in emission order
SelfIds(g) == [r \in 1..Len(g) |-> g[r][1]]

(***************************************************************************)
(* C1: for n >= 3, m >= 2 the cylinder graph has exactly n*m rows, every   *)
(* element of every row is an integer in 1..n*m, no ID occurs twice within *)
(* a row, and the first elements of the rows are pairwise distinct and     *)
(* together are exactly 1..n*m.                                            *)
(***************************************************************************)
C1_CylinderRows ==
    CylinderBuilt =>
        /\ Len(graph) = n * m
        /\ \A r \in 1..Len(graph) : \A k \in 1..Len(graph[r]) :
               graph[r][k] \in 1..(n * m)
        /\ \A r \in 1..Len(graph) : \A k1, k2 \in 1..Len(graph[r]) :
               k1 # k2 => graph[r][k1] # graph[r][k2]
        /\ \A r1, r2 \in 1..Len(graph) :
               r1 # r2 => graph[r1][1] # graph[r2][1]
        /\ { graph[r][1] : r \in 1..Len(graph) } = 1..(n * m)

C1_Witness ==
    /\ CylinderBuilt
    /\ n = 4
    /\ m = 3
    /\ Len(graph) = 12

(***************************************************************************)
(* C2: the adjacency relation of every generated graph (cylinder with      *)
(* n >= 3, m >= 2; wheel with n >= 4) is symmetric: if B appears after the *)
(* first position of the row of A, then A appears after the first position *)
(* of the row of B.                                                        *)
(***************************************************************************)
Symmetric(g) ==
    \A r \in 1..Len(g) : \A k \in 2..Len(g[r]) :
        /\ RowsOf(g, g[r][k]) # {}
        /\ \A r2 \in RowsOf(g, g[r][k]) :
               \E k2 \in 2..Len(g[r2]) : g[r2][k2] = g[r][1]

C2_Symmetric == (CylinderBuilt \/ WheelBuilt) => Symmetric(graph)

C2_Witness ==
    /\ CylinderBuilt
    /\ n = 3
    /\ m = 4
    /\ Len(graph) = 12
    /\ Symmetric(graph)

(***************************************************************************)
(* C3: generate-wheel prints 1-based IDs: for n >= 4 and m = n-1 the row   *)
(* of cycle vertex x is [x+1, n, ((x-1) mod m)+1, ((x+1) mod m)+1] and the *)
(* hub row is [n, 1, 2, ..., n-1]; every printed integer lies in 1..n.     *)
(***************************************************************************)
C3_WheelOneBased ==
    (IsWheel /\ Succeeded /\ n >= 4) =>
        /\ Len(stdout) = n
        /\ \A x \in 0..(n - 2) :
               stdout[x + 1] =
                   join(<<x + 1, n, ((x - 1) % (n - 1)) + 1,
                          ((x + 1) % (n - 1)) + 1>>)
        /\ stdout[n] = join(<<n>> \o range(1, n))
        /\ \A r \in 1..Len(graph) : \A k \in 1..Len(graph[r]) :
               graph[r][k] \in 1..n

(***************************************************************************)
(* C4: for n >= 3, m >= 2 and every (x, y), with id(x, y) = y*n + x + 1,   *)
(* the row of vertex (x, y) is [self, right, down, left] when y = 0,       *)
(* [self, right, down, left, up] when 0 < y < m-1 and                      *)
(* [self, right, left, up] when y = m-1, with x taken modulo n and y never *)
(* wrapped; these are the lines that are printed.                          *)
(***************************************************************************)
ExpectedRow(x, y) ==
    IF y = 0
    THEN <<id(x, y), id((x + 1) % n, y), id(x, y + 1), id((x - 1) % n, y)>>
    ELSE IF y < m - 1
    THEN <<id(x, y), id((x + 1) % n, y), id(x, y + 1), id((x - 1) % n, y),
           id(x, y - 1)>>
    ELSE <<id(x, y), id((x + 1) % n, y), id((x - 1) % n, y), id(x, y - 1)>>

C4_RowContents ==
    CylinderBuilt =>
        /\ \A x \in 0..(n - 1) : \A y \in 0..(m - 1) :
               /\ RowsOf(graph, id(x, y)) # {}
               /\ \A r \in RowsOf(graph, id(x, y)) :
                      /\ graph[r] = ExpectedRow(x, y)
                      /\ Len(graph[r]) - 1 = IF y \in {0, m - 1} THEN 3 ELSE 4
                      /\ r <= Len(stdout) => stdout[r] = join(ExpectedRow(x, y))
        /\ Succeeded => Len(stdout) = Len(graph)

C4_Witness ==
    /\ IsCylinder
    /\ Succeeded
    /\ n = 3
    /\ m = 2
    /\ stdout[1] = "1 2 4 3"
    /\ graph[1] = <<1, 2, 4, 3>>

(***************************************************************************)
(* C5: for n >= 4 the wheel graph has exactly n rows; the rows of the      *)
(* cycle vertices come first in increasing cycle index and the hub row is  *)
(* last; the hub row has exactly n-1 neighbors, every cycle vertex exactly *)
(* once; every other row has exactly 3 pairwise distinct neighbors: hub,   *)
(* predecessor, successor, in that order.                                  *)
(***************************************************************************)
C5_WheelShape ==
    WheelBuilt =>
        /\ Len(graph) = n
        /\ \A x \in 0..(n - 2) :
               /\ Len(graph[x + 1]) = 4
               /\ graph[x + 1][1] = graph[n][x + 2]
               /\ graph[x + 1][2] = graph[n][1]
               /\ graph[x + 1][3] = graph[((x - 1) % (n - 1)) + 1][1]
               /\ graph[x + 1][4] = graph[((x + 1) % (n - 1)) + 1][1]
               /\ Cardinality({graph[x + 1][k] : k \in 1..4}) = 4
        /\ Len(graph[n]) = n
        /\ Cardinality({graph[n][k] : k \in 1..n}) = n
        /\ { graph[n][k] : k \in 2..n } = { graph[r][1] : r \in 1..(n - 1) }

C5_Witness ==
    /\ WheelBuilt
    /\ n = 5
    /\ Len(graph) = 5
    /\ Len(graph[5]) = 5
    /\ Len(graph[1]) = 4

(***************************************************************************)
(* C6: for either command, an invocation that fails validation (wrong      *)
(* argument count, a non-integer argument, n or m below its minimum) never *)
(* reaches graph construction, never prints a line, and when it has        *)
(* terminated its exit status is non-zero.                                 *)
(***************************************************************************)
C6_NoPartialOutput ==
    Invalid =>
        /\ graph = <<>>
        /\ stdout = <<>>
        /\ pc \notin {"build", "print"}
        /\ pc = "done" => status > 0
        /\ pc # "done" => ENABLED Next

C6_Witness ==
    /\ IsCylinder
    /\ Len(argv) = 3
    /\ Denotes(argv[2]) /\ Meaning(argv[2]) = 2
    /\ Denotes(argv[3]) /\ Meaning(argv[3]) = 5
    /\ pc = "done"
    /\ status = 1
    /\ stdout = <<>>
    /\ stderr = "error: n must not be smaller than 3 (to avoid loops)"

(***************************************************************************)
(* C7 as stated: generate-cylinder invoked with n = 3 and any integer m    *)
(* ends in an error with a non-zero exit status and prints no rows.        *)
(***************************************************************************)
IntegerCylinderCall ==
    /\ IsCylinder
    /\ Len(argv) = 3
    /\ Denotes(argv[2])
    /\ Denotes(argv[3])

C7_ThreeRejected ==
    (IntegerCylinderCall /\ Meaning(argv[2]) = 3 /\ pc = "done") =>
        /\ status > 0
        /\ stdout = <<>>

(***************************************************************************)
(* C7 amended: generate-cylinder invoked with n < 3 and any integer m ends *)
(* in an error with a non-zero exit status and prints no rows; with n = 3  *)
(* it is rejected only when m < 2, and for m >= 2 it exits with status 0   *)
(* after printing 3*m rows.                                                *)
(***************************************************************************)
C7_BelowThreeRejected ==
    (IntegerCylinderCall /\ pc = "done") =>
        /\ Meaning(argv[2]) < 3 => (status > 0 /\ stdout = <<>>)
        /\ (Meaning(argv[2]) = 3 /\ Meaning(argv[3]) < 2) =>
               (status > 0 /\ stdout = <<>>)
        /\ (Meaning(argv[2]) = 3 /\ Meaning(argv[3]) >= 2) =>
               (status = 0 /\ Len(stdout) = 3 * Meaning(argv[3]))

C7_Witness ==
    /\ IntegerCylinderCall
    /\ Meaning(argv[2]) = 2
    /\ Meaning(argv[3]) = 2
    /\ pc = "done"
    /\ status = 1
    /\ stdout = <<>>

(***************************************************************************)
(* C8: for n >= 3, m >= 2 the cylinder rows are emitted in this order:     *)
(* the k-th line (k from 0) starts with x+1 for k = x, with y*n+x+1 for    *)
(* k = n + x*(m-2) + (y-1), 1 <= y <= m-2, and with (m-1)*n+x+1 for        *)
(* k = n + n*(m-2) + x; every printed line is the row at its position.     *)
(***************************************************************************)
C8_EmissionOrder ==
    CylinderBuilt =>
        /\ Len(graph) = n * m
        /\ Len(stdout) <= Len(graph)
        /\ Succeeded => Len(stdout) = n * m
        /\ \A k \in 1..Len(stdout) : stdout[k] = join(graph[k])
        /\ \A x \in 0..(n - 1) :
               /\ graph[x + 1][1] = x + 1
               /\ \A y \in 1..(m - 2) :
                      graph[n + x * (m - 2) + (y - 1) + 1][1] = y * n + x + 1
               /\ graph[n + n * (m - 2) + x + 1][1] = (m - 1) * n + x + 1

C8_Witness ==
    /\ IsCylinder
    /\ Succeeded
    /\ n = 3
    /\ m = 4
    /\ Len(stdout) = 12
    /\ SelfIds(graph) = <<1, 2, 3, 4, 7, 5, 8, 6, 9, 10, 11, 12>>

(***************************************************************************)
(* C9 as stated: for all n >= 3 and m >= 2 the sequence of self IDs of the *)
(* emitted cylinder rows differs from 1, 2, ..., n*m.                      *)
(***************************************************************************)
C9_NeverIdOrder ==
    (IsCylinder /\ Succeeded /\ n >= 3 /\ m >= 2) =>
        SelfIds(graph) # range(1, n * m + 1)

(***************************************************************************)
(* C9 amended: for all n >= 3 and m >= 4 the sequence of self IDs of the   *)
(* emitted cylinder rows differs from 1, 2, ..., n*m; for m = 2 and m = 3  *)
(* the rows are emitted in vertex-ID order.                                *)
(***************************************************************************)
C9_IdOrderOnlyBelowFour ==
    (IsCylinder /\ Succeeded /\ n >= 3 /\ m >= 2) =>
        /\ Len(stdout) = Len(graph)
        /\ m >= 4 => SelfIds(graph) # range(1, n * m + 1)
        /\ m <= 3 => SelfIds(graph) = range(1, n * m + 1)

C9_Witness ==
    /\ IsCylinder
    /\ Succeeded
    /\ n = 4
    /\ m = 4
    /\ Len(stdout) = 16
    /\ SelfIds(graph) # range(1, 17)

(***************************************************************************)
(* C10: reading the neighbor list of every row as the cyclic rotation of   *)
(* edges around that vertex and tracing faces (from dart u->v continue     *)
(* with v->w, w the cyclic successor of u in the row of v), the number of  *)
(* faces F satisfies V - E + F = 2; for the cylinder V = n*m,              *)
(* E = 2*n*m - n, F = n*(m-1) + 2, for the wheel V = n, E = 2*(n-1),       *)
(* F = n.                                                                  *)
(***************************************************************************)
Neighbors(g, v) == Tail(g[CHOOSE r \in 1..Len(g) : g[r][1] = v])

Darts(g) ==
    UNION { { <<g[r][1], g[r][k]>> : k \in 2..Len(g[r]) } : r \in 1..Len(g) }

NextDart(g, d) ==
    LET nb == Neighbors(g, d[2])
        k == CHOOSE j \in 1..Len(nb) : nb[j] = d[1]
    IN  <<d[2], nb[(k % Len(nb)) + 1]>>

RECURSIVE FaceFrom(_, _, _)
FaceFrom(g, d, seen) ==
    IF d \in seen THEN seen ELSE FaceFrom(g, NextDart(g, d), seen \cup {d})

Faces(g) == { FaceFrom(g, d, {}) : d \in Darts(g) }

NumV(g) == Len(g)

NumE(g) == Cardinality(Darts(g)) \div 2

NumF(g) == Cardinality(Faces(g))

\* the face walks cover every dart exactly once
FacesPartition(g) ==
    \A f1, f2 \in Faces(g) : f1 # f2 => f1 \cap f2 = {}

C10_Planar ==
    /\ (CylinderBuilt /\ stdout = <<>>) =>
           /\ FacesPartition(graph)
           /\ NumV(graph) = n * m
           /\ NumE(graph) = 2 * n * m - n
           /\ NumF(graph) = n * (m - 1) + 2
           /\ NumV(graph) - NumE(graph) + NumF(graph) = 2
    /\ (WheelBuilt /\ stdout = <<>>) =>
           /\ FacesPartition(graph)
           /\ NumV(graph) = n
           /\ NumE(graph) = 2 * (n - 1)
           /\ NumF(graph) = n
           /\ NumV(graph) - NumE(graph) + NumF(graph) = 2

C10_Witness ==
    /\ CylinderBuilt
    /\ stdout = <<>>
    /\ n = 4
    /\ m = 3
    /\ NumF(graph) = 10
    /\ NumE(graph) = 20
====
